---- MODULE Spec2Model ----
(***************************************************************************)
(* The expense tracker of expense-web-upload/app: the FastAPI handlers of  *)
(* main.py, the cookie session of auth.py, the data-access functions of    *)
(* crud.py and the two tables of models.py.                                *)
(*                                                                         *)
(* Three specifications share the tables:                                  *)
(*   Spec       the HTTP handlers of main.py, one action per handler       *)
(*              (register in its two database steps);                      *)
(*   SpecCrud   crud.create_record called by two concurrent sessions, in   *)
(*              its add / commit / refresh steps;                          *)
(*   SpecQuery  the read-only queries of crud.py (list_recent,             *)
(*              month_totals, month_category_breakdown) over any table.    *)
(*                                                                         *)
(* Conventions.  An optional value (Python None, SQL NULL, no cookie) is   *)
(* the empty sequence and a present value v is <<v>>.  An ORM object is a  *)
(* function whose domain is the set of attributes that were set.  Money    *)
(* is counted in cents (Numeric(12, 2)).  A date is <<year, month, day>>.  *)
(* A form string is [pad, text]: text with or without blanks around it.    *)
(***************************************************************************)
EXTENDS Integers, Sequences, FiniteSets, TLC

VARIABLES users, records, cookie, pending, last, sess, view

vars == <<users, records, cookie, pending, last, sess, view>>

-----------------------------------------------------------------------------
(* Bounds of the model *)

\* no more than this many rows in the users table
MaxUsers == 3
\* row ids of the tables the query specification starts from
MaxRows == 3
\* the limits list_recent is asked for: 0 .. MaxLimit
MaxLimit == 3

-----------------------------------------------------------------------------
(* Values *)

None == <<>>
Some(v) == <<v>>

Max(S) == CHOOSE x \in S : \A y \in S : y <= x

\* func.sum(R.amount) over a set of rows
RECURSIVE SumAmount(_)
SumAmount(S) ==
    IF S = {} THEN 0
    ELSE LET x == CHOOSE y \in S : TRUE IN x.amount + SumAmount(S \ {x})

\* setattr(obj, name, value)
setattr(obj, name, value) ==
    [a \in (DOMAIN obj) \cup {name} |-> IF a = name THEN value ELSE obj[a]]

\* (s or "").strip()
strip(s) == s.text

\* str(n) and int(s) on the decimal strings the model uses
Decimals == <<"0", "1", "2", "3", "4", "5", "6", "7", "8", "9">>
str(n) == Decimals[n + 1]
int(s) ==
    IF \E n \in 0..9 : Decimals[n + 1] = s
    THEN Some(CHOOSE n \in 0..9 : Decimals[n + 1] = s)
    ELSE None

-----------------------------------------------------------------------------
(* Calendar dates *)

IsLeap(y) == (y % 4 = 0 /\ y % 100 # 0) \/ y % 400 = 0

DaysInMonth(y, m) ==
    IF m = 2 THEN (IF IsLeap(y) THEN 29 ELSE 28)
    ELSE IF m \in {4, 6, 9, 11} THEN 30 ELSE 31

\* a < b on dates
DateLess(a, b) ==
    \/ a[1] < b[1]
    \/ a[1] = b[1] /\ a[2] < b[2]
    \/ a[1] = b[1] /\ a[2] = b[2] /\ a[3] < b[3]

ValidDate(d) ==
    /\ d[1] \in 1..9999
    /\ d[2] \in 1..12
    /\ d[3] \in 1..DaysInMonth(d[1], d[2])

\* A date string is [pad, sep, f]: three fields of digits, f[i] = <<number
\* of digits, value>>, joined by sep.  _parse_date_any strips it, turns "/"
\* into "-" and parses %Y-%m-%d: four digits, then one or two digits twice,
\* then datetime's own range check.  None stands for ValueError.
_parse_date_any(s) ==
    LET sep == IF s.sep = "/" THEN "-" ELSE s.sep
        y == s.f[1]
        m == s.f[2]
        d == s.f[3]
    IN  IF /\ sep = "-"
           /\ y[1] = 4
           /\ m[1] \in {1, 2} /\ m[2] \in 1..12
           /\ d[1] \in {1, 2} /\ d[2] \in 1..31
           /\ ValidDate(<<y[2], m[2], d[2]>>)
        THEN Some(<<y[2], m[2], d[2]>>)
        ELSE None

\* amount: float = Form(...): the form string parsed by the framework; None
\* stands for the 422 response it sends when the string is no number
parse_float(s) == IF s.num THEN Some(s.cents) ELSE None

-----------------------------------------------------------------------------
(* models.py: the tables *)

\* the attributes of class Record (its columns and its relationship)
RecordColumns ==
    {"id", "user_id", "r_type", "category", "amount", "note", "r_date",
     "created_at", "user"}

\* the columns of Record declared nullable=False, the primary key apart
RecordNotNull == {"user_id", "r_type", "category", "amount", "r_date"}

\* Column(String(50), nullable=False, default=...): the label "other",
\* written in Chinese in the source
RecordCategoryDefault == "qita"

\* username = Column(String(50), unique=True, ...)
UsernameUniqueDropped == FALSE
UsernameUnique == TRUE

\* the id an autoincrementing integer primary key gives the next row
NextId(table) == IF table = {} THEN 1 ELSE Max({r.id : r \in table}) + 1

\* INSERT of an ORM object into records: the column default, then the NOT
\* NULL constraints.  None stands for IntegrityError.
InsertRecord(table, obj) ==
    LET withDefault ==
            IF "category" \in DOMAIN obj THEN obj
            ELSE setattr(obj, "category", RecordCategoryDefault)
        row == setattr(withDefault, "id", NextId(table))
    IN  IF RecordNotNull \subseteq DOMAIN row THEN Some(row) ELSE None

\* INSERT of a row into users: the unique index on username
InsertUser(table, username, password_hash) ==
    IF UsernameUnique /\ \E u \in table : u.username = username
    THEN None
    ELSE Some([id |-> NextId(table), username |-> username,
               password_hash |-> password_hash])

-----------------------------------------------------------------------------
(* auth.py *)

\* pwd_context.hash: a salted pbkdf2_sha256 hash, opaque but for verify
hash_password(password) == <<"pbkdf2_sha256", password>>

\* pwd_context.verify, False on any exception
verify_password(password, password_hash) ==
    /\ Len(password_hash) = 2
    /\ password_hash[1] = "pbkdf2_sha256"
    /\ password_hash[2] = password

\* the user id of the session cookie: None without cookie, with an empty
\* one, or with one that int() refuses
get_current_user_id(v) ==
    IF v = None \/ v[1] = "" THEN None ELSE int(v[1])

\* `if not uid` in the handlers: None and 0 are both false
LoginRequiredIsNone(uid) == uid = None
LoginRequired(uid) == uid = None \/ uid[1] = 0

-----------------------------------------------------------------------------
(* Calling a Python function with keyword arguments *)

\* TypeError unless every keyword is a parameter and every parameter
\* without default is given
CanCall(params, required, given) ==
    given \subseteq params /\ required \subseteq given

-----------------------------------------------------------------------------
(* crud.py *)

_has_col(col_name) == col_name \in RecordColumns

\* the signature of list_records / list_recent (crud.py)
list_records_params == {"db", "limit"}
list_records_required == {"db"}
DefaultLimit == 200

\* the signature of create_record (crud.py)
create_record_params ==
    {"db", "r_type", "amount", "category", "date_value", "date_str", "note"}
create_record_required == {"db", "r_type", "amount", "category"}

\* date.strftime("%Y-%m-%d"), as a date string
strftime(d) ==
    [pad |-> FALSE, sep |-> "-", f |-> <<<<4, d[1]>>, <<2, d[2]>>, <<2, d[3]>>>>]

\* len(s.strip()) of a date string
DateStrLen(s) == s.f[1][1] + s.f[2][1] + s.f[3][1] + 2

\* What col1 < col2 means for one column: dates by the calendar, ids and
\* amounts as numbers
ColLess(col, a, b) ==
    IF col \in {"date", "date_str", "r_date"} THEN DateLess(a, b) ELSE a < b

\* a comes before b under ORDER BY cols[1] DESC, cols[2] DESC, ...
RECURSIVE Before(_, _, _)
Before(cols, a, b) ==
    IF cols = <<>> THEN FALSE
    ELSE \/ ColLess(Head(cols), b[Head(cols)], a[Head(cols)])
         \/ /\ a[Head(cols)] = b[Head(cols)]
            /\ Before(Tail(cols), a, b)

\* SELECT ... ORDER BY cols DESC: the rows in that order; rows the order
\* leaves tied come in an order the database chooses
RECURSIVE OrderByDesc(_, _)
OrderByDesc(rows, cols) ==
    IF rows = {} THEN <<>>
    ELSE LET first == CHOOSE r \in rows : \A o \in rows : ~Before(cols, o, r)
         IN  <<first>> \o OrderByDesc(rows \ {first}, cols)

\* .limit(n)
Limit(seq, n) == SubSeq(seq, 1, IF n < Len(seq) THEN n ELSE Len(seq))

\* the columns list_recent orders by: date or else date_str when the model
\* has such an attribute, then id when it has one
list_recent_order ==
    (IF _has_col("date") THEN <<"date">>
     ELSE IF _has_col("date_str") THEN <<"date_str">> ELSE <<>>)
    \o (IF _has_col("id") THEN <<"id">> ELSE <<>>)

list_recent(table, limit) == Limit(OrderByDesc(table, list_recent_order), limit)

list_records(table, limit) == list_recent(table, limit)

\* The object create_record builds before db.add: each attribute set only
\* when the model class has it
create_record_obj(r_type, amount, category, date_value, date_str, note, today) ==
    LET o0 == [a \in {} |-> 0]
        o1 == IF _has_col("r_type") THEN setattr(o0, "r_type", r_type)
              ELSE IF _has_col("type") THEN setattr(o0, "type", r_type)
              ELSE o0
        o2 == IF _has_col("amount") THEN setattr(o1, "amount", amount) ELSE o1
        o3 == IF _has_col("category") THEN setattr(o2, "category", category) ELSE o2
        o4 == IF _has_col("note") THEN setattr(o3, "note", note) ELSE o3
        dv == IF date_value = None THEN today ELSE date_value[1]
        o5 == IF _has_col("date") THEN setattr(o4, "date", dv) ELSE o4
        ds == IF date_str # None /\ DateStrLen(date_str[1]) >= 8
              THEN [date_str[1] EXCEPT !.pad = FALSE,
                                       !.sep = IF @ = "/" THEN "-" ELSE @]
              ELSE strftime(dv)
    IN  IF _has_col("date_str") THEN setattr(o5, "date_str", ds) ELSE o5

\* create_record run in one piece (db.add, db.commit, db.refresh), as a
\* request handler runs it: the table afterwards, and the outcome
create_record(table, r_type, amount, category, date_value, date_str, note, today) ==
    LET obj == create_record_obj(r_type, amount, category, date_value,
                                 date_str, note, today)
        row == InsertRecord(table, obj)
    IN  IF row = None
        THEN [records |-> table, outcome |-> "IntegrityError"]
        ELSE [records |-> table \cup {row[1]}, outcome |-> "ok"]

\* func.to_char(R.date, "YYYY-MM"), a month being <<year, month>>
to_char_month(d) == <<d[1], d[2]>>

\* R.date_str.startswith(month), for a date string in year-month-day order
startswith_month(s, month) ==
    s.sep = "-" /\ s.f[1][1] = 4 /\ s.f[2][1] = 2 /\ <<s.f[1][2], s.f[2][2]>> = month

\* the rows of the month, by the date column the model class has; None when
\* it has neither (the functions then go on with rows = [])
month_rows(table, month) ==
    IF _has_col("date_str")
    THEN Some({r \in table : startswith_month(r.date_str, month)})
    ELSE IF _has_col("date")
    THEN Some({r \in table : to_char_month(r.date) = month})
    ELSE None

\* SELECT r_type, sum(amount) ... GROUP BY r_type
sum_by_type(rows) ==
    {[r_type |-> t, total |-> SumAmount({r \in rows : r.r_type = t})] :
        t \in {r.r_type : r \in rows}}

\* SELECT category, sum(amount) ... GROUP BY category
sum_by_category(rows) ==
    {[category |-> k, total |-> SumAmount({r \in rows : r.category = k})] :
        k \in {r.category : r \in rows}}

\* round(x, 2): a sum of Numeric(12, 2) amounts is a whole number of cents,
\* which rounding to two decimals leaves as it is
round2(cents) == cents

\* the total the loop of month_totals ends with for the labels of one type:
\* 0.0, or the sum of the group that came last among them
total_of(groups, labels) ==
    LET mine == {g \in groups : g.r_type \in labels}
    IN  IF mine = {} THEN 0 ELSE (CHOOSE g \in mine : TRUE).total

\* The labels are "expense" / "income" and their Chinese words, written here
\* in pinyin.
month_totals(table, month) ==
    LET found == month_rows(table, month)
        groups == IF found = None THEN {} ELSE sum_by_type(found[1])
        total_expense == total_of(groups, {"expense", "zhichu"})
        total_income == total_of(groups, {"income", "shouru"})
    IN  [month |-> month,
         total_expense |-> round2(total_expense),
         total_income |-> round2(total_income),
         balance |-> round2(total_income - total_expense)]

\* the label of a row without category ("uncategorized", in Chinese in the
\* source)
Uncategorized == "weifenlei"

RECURSIVE breakdown_out(_)
breakdown_out(rows) ==
    IF rows = <<>> THEN <<>>
    ELSE <<[category |-> IF Head(rows).category = "" THEN Uncategorized
                         ELSE Head(rows).category,
            total |-> Head(rows).total]>> \o breakdown_out(Tail(rows))

month_category_breakdown(table, month, r_type) ==
    LET found == month_rows({r \in table : r.r_type = r_type}, month)
        rows == IF found = None THEN <<>>
                ELSE OrderByDesc(sum_by_category(found[1]), <<"total">>)
    IN  breakdown_out(rows)

-----------------------------------------------------------------------------
(* The functions of crud that main.py calls and crud.py does not define *)

\* db.query(User).filter(User.username == username).first()
get_user_by_username(table, username) ==
    LET found == {u \in table : u.username = username}
    IN  IF found = {} THEN None
        ELSE Some(CHOOSE u \in found : \A o \in found : u.id <= o.id)

\* a new row of users; None stands for the IntegrityError of the insert
create_user(table, username, password_hash) ==
    InsertUser(table, username, password_hash)

\* delete(owner, id): the record goes only when it exists and is the owner's
delete_record_any_owner(table, user_id, record_id) ==
    {r \in table : r.id # record_id}
delete_record(table, user_id, record_id) ==
    {r \in table : ~(r.id = record_id /\ r.user_id = user_id)}

\* month_range(yyyy_mm): the first and the last day of the month
month_range(m) == <<<<m[1], m[2], 1>>, <<m[1], m[2], DaysInMonth(m[1], m[2])>>>>

\* range_summary(owner, start, end): the sums by type over [start, end]
range_summary(table, user_id, start, end) ==
    LET inRange == {r \in table : /\ r.user_id = user_id
                                   /\ ~DateLess(r.r_date, start)
                                   /\ ~DateLess(end, r.r_date)}
        expense == SumAmount({r \in inRange : r.r_type = "expense"})
        income == SumAmount({r \in inRange : r.r_type = "income"})
    IN  [expense |-> expense, income |-> income, balance |-> income - expense]

\* week_range(yyyy_Www): Monday to Sunday of the ISO week, for the weeks the
\* model asks for
week_range(w) ==
    IF w = <<2024, 1>> THEN <<<<2024, 1, 1>>, <<2024, 1, 7>>>>
    ELSE <<<<2024, 1, 8>>, <<2024, 1, 14>>>>

-----------------------------------------------------------------------------
(* The requests the model sends *)

Clients == {"c1", "c2"}

\* date.today(), and its ISO week
Today == <<2024, 1, 3>>
ThisWeek == <<2024, 1>>

MinPasswordLen == 6

RawUsernames ==
    {[pad |-> FALSE, text |-> "alice"], [pad |-> TRUE, text |-> "carol"],
     [pad |-> TRUE, text |-> ""]}
Passwords == {"secret1", "abc"}

DateStr(pad, sep, y, m, d) == [pad |-> pad, sep |-> sep, f |-> <<y, m, d>>]
\* "2024-01-15", " 2024/02/29 ", "2023-02-29", "13/45/2024"
DateStrings ==
    {DateStr(FALSE, "-", <<4, 2024>>, <<2, 1>>, <<2, 15>>),
     DateStr(TRUE, "/", <<4, 2024>>, <<2, 2>>, <<2, 29>>),
     DateStr(FALSE, "-", <<4, 2023>>, <<2, 2>>, <<2, 29>>),
     DateStr(FALSE, "/", <<2, 13>>, <<2, 45>>, <<4, 2024>>)}
\* "12.50", "-5", "abc"
AmountStrings ==
    {[num |-> TRUE, cents |-> 1250], [num |-> TRUE, cents |-> -500],
     [num |-> FALSE, cents |-> 0]}
TypeStrings == {[pad |-> TRUE, text |-> "income"], [pad |-> FALSE, text |-> "transfer"]}

AddForms ==
    [type : TypeStrings, amount : AmountStrings, date : DateStrings,
     category : {[pad |-> TRUE, text |-> "food"]},
     note : {[pad |-> FALSE, text |-> ""]}]

\* the {record_id} of POST /delete/{record_id}
DeletePaths == {"1", "2", "7", "x"}

StatsQueries == [mode : {"month", "week"}, month : {None, Some(<<2024, 2>>)}, week : {None}]

\* The database outlives the process (db.py keeps it in a file or a server,
\* and main.py creates only the tables that are missing): it starts empty,
\* or with two accounts and a record of each.
SeedUsers ==
    {[id |-> 1, username |-> "alice", password_hash |-> hash_password("secret1")],
     [id |-> 2, username |-> "bob", password_hash |-> hash_password("hunter22")]}
SeedRecords ==
    {[id |-> 1, user_id |-> 1, r_type |-> "expense", category |-> "food",
      amount |-> 1250, note |-> "", r_date |-> <<2024, 1, 2>>],
     [id |-> 2, user_id |-> 2, r_type |-> "income", category |-> "salary",
      amount |-> 300000, note |-> "", r_date |-> <<2024, 1, 5>>]}

\* the session cookies a browser may hold before it ever logged in
StaleCookies == {None, Some(""), Some("0"), Some("abc")}

NoRequest ==
    [client |-> "", route |-> "", outcome |-> "", cookie |-> None,
     form |-> None, removed |-> {}, added |-> {}, users_added |-> {},
     existed |-> FALSE]

IdleSessions == [p \in {"s1", "s2"} |-> [pc |-> "idle"]]
NoView == [op |-> ""]

Init ==
    /\ \/ users = {} /\ records = {}
       \/ users = SeedUsers /\ records = SeedRecords
    /\ cookie \in [Clients -> StaleCookies]
    /\ cookie["c2"] = None
    /\ pending = [c \in Clients |-> None]
    /\ last = NoRequest
    /\ sess = IdleSessions
    /\ view = NoView

\* what a handler leaves behind: the response, and what it did to the tables
Response(c, route, form, outcome, newRecords, newUsers, existed) ==
    [client |-> c, route |-> route, outcome |-> outcome, cookie |-> cookie[c],
     form |-> form, removed |-> records \ newRecords,
     added |-> newRecords \ records, users_added |-> newUsers \ users,
     existed |-> existed]

-----------------------------------------------------------------------------
(* main.py: the handlers *)

\* POST /register, up to the lookup of the username
register_post_check(c, username, password) ==
    LET name == strip(username)
        existed == get_user_by_username(users, name) # None
        outcome == IF name = "" THEN "400 username empty"
                   ELSE IF Len(password) < MinPasswordLen THEN "400 password short"
                   ELSE IF existed THEN "400 username exists"
                   ELSE "checked"
    IN  /\ pending[c] = None
        /\ pending' = [pending EXCEPT ![c] =
                IF outcome = "checked"
                THEN Some([username |-> name, password |-> password])
                ELSE None]
        /\ last' = Response(c, "register", Some(username), outcome, records,
                            users, existed)
        /\ UNCHANGED <<users, records, cookie, sess, view>>

\* POST /register, from create_user on
register_post_create(c) ==
    /\ pending[c] # None
    /\ Cardinality(users) < MaxUsers
    /\ LET name == pending[c][1].username
           u == create_user(users, name, hash_password(pending[c][1].password))
           newUsers == IF u = None THEN users ELSE users \cup {u[1]}
       IN  /\ users' = newUsers
           /\ cookie' = IF u = None THEN cookie
                        ELSE [cookie EXCEPT ![c] = Some(str(u[1].id))]
           /\ last' = Response(c, "register", Some([pad |-> FALSE, text |-> name]),
                               IF u = None THEN "500 IntegrityError"
                               ELSE "303 /",
                               records, newUsers,
                               get_user_by_username(users, name) # None)
    /\ pending' = [pending EXCEPT ![c] = None]
    /\ UNCHANGED <<records, sess, view>>

\* POST /login
login_post(c, username, password) ==
    LET u == get_user_by_username(users, strip(username))
        ok == u # None /\ verify_password(password, u[1].password_hash)
    IN  /\ pending[c] = None
        /\ cookie' = IF ok THEN [cookie EXCEPT ![c] = Some(str(u[1].id))]
                     ELSE cookie
        /\ last' = Response(c, "login", Some(username),
                            IF ok THEN "303 /" ELSE "401", records, users, FALSE)
        /\ UNCHANGED <<users, records, pending, sess, view>>

\* GET /logout
logout(c) ==
    /\ pending[c] = None
    /\ cookie' = [cookie EXCEPT ![c] = None]
    /\ last' = Response(c, "logout", None, "303 /login", records, users, FALSE)
    /\ UNCHANGED <<users, records, pending, sess, view>>

\* GET /
home(c) ==
    LET uid == get_current_user_id(cookie[c])
        outcome ==
            IF LoginRequired(uid) THEN "303 /login"
            ELSE IF ~CanCall(list_records_params, list_records_required,
                             {"db", "user_id", "limit"})
            THEN "500 TypeError"
            ELSE "200"
    IN  /\ pending[c] = None
        /\ last' = Response(c, "home", None, outcome, records, users, FALSE)
        /\ UNCHANGED <<users, records, cookie, pending, sess, view>>

\* POST /add: the outcome and the records table afterwards
add_post_effect(v, form) ==
    LET amount == parse_float(form.amount)
        uid == get_current_user_id(v)
        t0 == strip(form.type)
        t == IF t0 \in {"expense", "income"} THEN t0 ELSE "expense"
        d == _parse_date_any(form.date)
        kwargs == [db |-> "db", user_id |-> uid[1], type_ |-> t,
                   amount |-> amount[1], category |-> strip(form.category),
                   d |-> d[1], note |-> strip(form.note)]
    IN  IF amount = None THEN [records |-> records, outcome |-> "422"]
        ELSE IF LoginRequired(uid)
        THEN [records |-> records, outcome |-> "303 /login"]
        ELSE IF d = None THEN [records |-> records, outcome |-> "500 ValueError"]
        ELSE IF ~CanCall(create_record_params, create_record_required,
                         DOMAIN kwargs)
        THEN [records |-> records, outcome |-> "500 TypeError"]
        ELSE LET r == create_record(records, kwargs.r_type, kwargs.amount,
                                    kwargs.category, None, None, kwargs.note,
                                    Today)
             IN  [records |-> r.records,
                  outcome |-> IF r.outcome = "ok" THEN "303 /"
                              ELSE "500 IntegrityError"]

add_post(c, form) ==
    LET e == add_post_effect(cookie[c], form)
    IN  /\ pending[c] = None
        /\ records' = e.records
        /\ last' = Response(c, "add", Some(form), e.outcome, e.records, users, FALSE)
        /\ UNCHANGED <<users, cookie, pending, sess, view>>

\* POST /delete/{record_id}
delete_post(c, path) ==
    LET record_id == int(path)
        uid == get_current_user_id(cookie[c])
        gone == record_id # None /\ ~LoginRequired(uid)
        newRecords == IF gone THEN delete_record(records, uid[1], record_id[1])
                      ELSE records
        outcome == IF record_id = None THEN "422"
                   ELSE IF LoginRequired(uid) THEN "303 /login"
                   ELSE "303 /"
    IN  /\ pending[c] = None
        /\ records' = newRecords
        /\ last' = Response(c, "delete", Some(path), outcome, newRecords, users, FALSE)
        /\ UNCHANGED <<users, cookie, pending, sess, view>>

\* GET /stats: the period, then the summary of it (the two category
\* breakdowns are read the same way and change nothing)
stats(c, q) ==
    LET uid == get_current_user_id(cookie[c])
        range == IF q.mode = "week"
                 THEN week_range(IF q.week = None THEN ThisWeek ELSE q.week[1])
                 ELSE month_range(IF q.month = None THEN <<Today[1], Today[2]>>
                                  ELSE q.month[1])
        outcome == IF LoginRequired(uid) THEN "303 /login" ELSE "200"
        page == IF LoginRequired(uid) THEN None
                ELSE Some(range_summary(records, uid[1], range[1], range[2]))
    IN  /\ pending[c] = None
        /\ last' = Response(c, "stats", page, outcome, records, users, FALSE)
        /\ UNCHANGED <<users, records, cookie, pending, sess, view>>

Next ==
    \/ \E c \in Clients, u \in RawUsernames, p \in Passwords :
          register_post_check(c, u, p)
    \/ \E c \in Clients : register_post_create(c)
    \/ \E c \in Clients, u \in RawUsernames, p \in Passwords : login_post(c, u, p)
    \/ \E c \in Clients : logout(c)
    \/ \E c \in Clients : home(c)
    \/ \E c \in Clients, form \in AddForms : add_post(c, form)
    \/ \E c \in Clients, path \in DeletePaths : delete_post(c, path)
    \/ \E c \in Clients, q \in StatsQueries : stats(c, q)

Spec == Init /\ [][Next]_vars

-----------------------------------------------------------------------------
(* crud.create_record called by two sessions at once *)

Sessions == {"s1", "s2"}

CreateArgs ==
    [r_type : {"expense", "income"}, amount : {0, 1250}, category : {"food"},
     date_value : {None, Some(<<2024, 1, 15>>)}, note : {"lunch"}]

InitCrud ==
    /\ records \in {{}, SeedRecords}
    /\ users = {}
    /\ cookie = [c \in Clients |-> None]
    /\ pending = [c \in Clients |-> None]
    /\ last = NoRequest
    /\ sess = IdleSessions
    /\ view = NoView

\* create_record up to db.add(obj): the object is pending in the session
create_record_add(p, args) ==
    /\ sess[p].pc = "idle"
    /\ Cardinality(records) < MaxRows
    /\ sess' = [sess EXCEPT ![p] =
            [pc |-> "added", args |-> args,
             obj |-> create_record_obj(args.r_type, args.amount, args.category,
                                       args.date_value, None, args.note, Today)]]
    /\ UNCHANGED <<users, records, cookie, pending, last, view>>

\* db.commit(), which inserts the object or raises IntegrityError, and then
\* db.refresh(obj), which reads the row back
create_record_step(p) ==
    /\ sess[p].pc \in {"added", "committed"}
    /\ IF sess[p].pc = "added"
       THEN LET row == InsertRecord(records, sess[p].obj)
            IN  IF row = None
                THEN /\ sess' = [sess EXCEPT ![p].pc = "raised"]
                     /\ UNCHANGED records
                ELSE /\ sess' = [sess EXCEPT ![p].pc = "committed",
                                             ![p].obj = row[1]]
                     /\ records' = records \cup {row[1]}
       ELSE /\ sess' = [sess EXCEPT
                  ![p].pc = IF \E r \in records : r.id = sess[p].obj.id
                            THEN "returned" ELSE "raised",
                  ![p].obj = IF \E r \in records : r.id = sess[p].obj.id
                             THEN CHOOSE r \in records : r.id = sess[p].obj.id
                             ELSE @]
            /\ UNCHANGED records
    /\ UNCHANGED <<users, cookie, pending, last, view>>

\* the caller's db.close()
session_close(p) ==
    /\ sess[p].pc \in {"returned", "raised"}
    /\ sess' = [sess EXCEPT ![p] = [pc |-> "idle"]]
    /\ UNCHANGED <<users, records, cookie, pending, last, view>>

\* list_records(db, limit)
call_list_records(limit) ==
    /\ view' = [op |-> "list", limit |-> limit, out |-> list_records(records, limit)]
    /\ UNCHANGED <<users, records, cookie, pending, last, sess>>

NextCrud ==
    \/ \E p \in Sessions, args \in CreateArgs : create_record_add(p, args)
    \/ \E p \in Sessions : create_record_step(p)
    \/ \E p \in Sessions : session_close(p)
    \/ \E limit \in {1, DefaultLimit} : call_list_records(limit)

SpecCrud == InitCrud /\ [][NextCrud]_vars

-----------------------------------------------------------------------------
(* The queries of crud.py over any table *)

RowChoices ==
    [user_id : {1}, r_type : {"expense", "income"}, category : {"food", ""},
     amount : {500, 1000}, note : {""},
     r_date : {<<2024, 1, 15>>, <<2024, 2, 10>>}]

\* the tables with rows of ids in 1 .. MaxRows
TableOf(f) == {setattr(f[i][1], "id", i) : i \in {j \in DOMAIN f : f[j] # None}}
QueryTables ==
    {TableOf(f) : f \in [1..MaxRows -> {None} \cup {Some(r) : r \in RowChoices}]}

QueryMonths == {<<2024, 1>>, <<2024, 3>>}

InitQuery ==
    /\ records \in QueryTables
    /\ users = {}
    /\ cookie = [c \in Clients |-> None]
    /\ pending = [c \in Clients |-> None]
    /\ last = NoRequest
    /\ sess = IdleSessions
    /\ view = NoView

query_list_recent(limit) ==
    /\ view' = [op |-> "list", limit |-> limit, out |-> list_recent(records, limit)]
    /\ UNCHANGED <<users, records, cookie, pending, last, sess>>

query_month_totals(month) ==
    /\ view' = [op |-> "totals", month |-> month, out |-> month_totals(records, month)]
    /\ UNCHANGED <<users, records, cookie, pending, last, sess>>

query_month_category_breakdown(month, r_type) ==
    /\ view' = [op |-> "breakdown", month |-> month, r_type |-> r_type,
                out |-> month_category_breakdown(records, month, r_type)]
    /\ UNCHANGED <<users, records, cookie, pending, last, sess>>

NextQuery ==
    \/ \E limit \in 0..MaxLimit : query_list_recent(limit)
    \/ \E month \in QueryMonths : query_month_totals(month)
    \/ \E month \in QueryMonths, r_type \in {"expense", "income"} :
          query_month_category_breakdown(month, r_type)

SpecQuery == InitQuery /\ [][NextQuery]_vars

-----------------------------------------------------------------------------
(* The claims *)

\* the session a request's cookie stands for, in the claims' words: none
\* when the cookie is missing, empty, zero or no integer
NoSession(v) == v = None \/ v[1] = "" \/ int(v[1]) = None \/ int(v[1]) = Some(0)

TablesUntouched == last.removed = {} /\ last.added = {} /\ last.users_added = {}

\* a form the record contract refuses: a type that is neither expense nor
\* income, an amount that is no number or is negative, a date off the calendar
RefusedByContract(form) ==
    \/ strip(form.type) \notin {"expense", "income"}
    \/ ~form.amount.num
    \/ form.amount.cents < 0
    \/ _parse_date_any(form.date) = None

\* C1: a create request of a logged-in user whose type is not expense or
\* income, or whose amount is no non-negative number, or whose date is no
\* calendar date, fails with a validation error (the framework's 422 or the
\* ValueError of the date parser) and leaves the records table as it was.
C1_InvalidCreateIsRefused ==
    (last.route = "add" /\ ~NoSession(last.cookie) /\ RefusedByContract(last.form[1]))
        => /\ last.outcome \in {"422", "500 ValueError"}
           /\ TablesUntouched

\* C3: once create_record has ended for valid arguments, list_records (with
\* the default limit) returns a record with exactly the type, amount,
\* category, date and note passed to it.
C3_CreateThenList ==
    \A p \in Sessions :
        sess[p].pc \in {"returned", "raised"} =>
            LET a == sess[p].args
                listed == list_records(records, DefaultLimit)
            IN  \E i \in 1..Len(listed) :
                    /\ listed[i].r_type = a.r_type
                    /\ listed[i].amount = a.amount
                    /\ listed[i].category = a.category
                    /\ listed[i].note = a.note
                    /\ listed[i].r_date = (IF a.date_value = None THEN Today
                                           ELSE a.date_value[1])

\* C4: when two concurrent calls of create_record have both ended, both
\* have returned, their records have distinct ids and both are in the table.
C4_ConcurrentCreatesBothPersist ==
    (\A p \in Sessions : sess[p].pc \in {"returned", "raised"}) =>
        /\ \A p \in Sessions : /\ sess[p].pc = "returned"
                               /\ sess[p].obj \in records
        /\ sess["s1"].obj.id # sess["s2"].obj.id

\* C5: POST /delete/{id} never ends in a server error and adds nothing; a
\* record it removes has the id asked for and belongs to the logged-in
\* caller, so an unknown id or another user's record leaves the table as it
\* was; and the caller's own record with that id is gone afterwards.
C5_DeleteOnlyOwn ==
    last.route = "delete" =>
        LET uid == get_current_user_id(last.cookie)
            record_id == int(last.form[1])
        IN  /\ last.outcome \in {"303 /", "303 /login", "422"}
            /\ last.added = {} /\ last.users_added = {}
            /\ \A r \in last.removed :
                   /\ ~NoSession(last.cookie)
                   /\ record_id = Some(r.id)
                   /\ uid = Some(r.user_id)
            /\ last.outcome = "303 /" =>
                   ~\E r \in records : record_id = Some(r.id) /\ uid = Some(r.user_id)

\* C5's case: a logged-in user asked to delete another user's record, and
\* the record is still there
C5_Witness ==
    /\ last.route = "delete" /\ last.outcome = "303 /"
    /\ \E r \in records :
           /\ int(last.form[1]) = Some(r.id)
           /\ get_current_user_id(last.cookie) # Some(r.user_id)

\* C6: list_recent returns at most `limit` records: the first `limit` of the
\* table ordered by date descending and, within a date, by id descending.
C6_ListByDateThenId ==
    view.op = "list" =>
        /\ Len(view.out) <= view.limit
        /\ view.out = Limit(OrderByDesc(records, <<"r_date", "id">>), view.limit)

\* C7: the summary of a month has income_total and expense_total equal to
\* the sums of the amounts of the month's records of each type, and
\* balance = income_total - expense_total; a month without records gives
\* three zeros.
C7_SummaryIsSumOfRecords ==
    view.op = "totals" =>
        LET inMonth == {r \in records : to_char_month(r.r_date) = view.month}
        IN  /\ view.out.total_income =
                   SumAmount({r \in inMonth : r.r_type = "income"})
            /\ view.out.total_expense =
                   SumAmount({r \in inMonth : r.r_type = "expense"})
            /\ view.out.balance = view.out.total_income - view.out.total_expense
            /\ inMonth = {} => /\ view.out.total_income = 0
                               /\ view.out.total_expense = 0
                               /\ view.out.balance = 0

\* the order of category names: ASCII before the Chinese label
LabelOrder == <<"food", "weifenlei">>
LabelRank(k) == CHOOSE i \in 1..Len(LabelOrder) : LabelOrder[i] = k

\* C8: the breakdown of a type and month lists each category of the
\* month's records of that type once, with its total, an empty category
\* under the one label for uncategorized records; the entries come by total
\* descending, and by category name ascending where totals are equal.
C8_BreakdownOrdered ==
    view.op = "breakdown" =>
        LET inMonth == {r \in records : /\ to_char_month(r.r_date) = view.month
                                        /\ r.r_type = view.r_type}
            Label(k) == IF k = "" THEN Uncategorized ELSE k
            out == view.out
        IN  /\ \A i, j \in 1..Len(out) :
                   i < j => \/ out[i].total > out[j].total
                            \/ /\ out[i].total = out[j].total
                               /\ LabelRank(out[i].category) < LabelRank(out[j].category)
            /\ \A r \in inMonth :
                   \E i \in 1..Len(out) :
                       /\ out[i].category = Label(r.category)
                       /\ out[i].total =
                              SumAmount({o \in inMonth : Label(o.category) = Label(r.category)})

ProtectedRoutes == {"home", "add", "delete", "stats"}

\* C10 as stated: a request to /, POST /add, POST /delete/{id} or /stats
\* with no session cookie, or with one that is empty, zero or no integer, is
\* redirected to /login and leaves both tables unchanged.
C10_NoSessionRedirects ==
    (last.route \in ProtectedRoutes /\ NoSession(last.cookie)) =>
        /\ last.outcome = "303 /login"
        /\ TablesUntouched

\* the requests FastAPI answers with 422 before the handler runs
Unparseable ==
    \/ last.route = "add" /\ ~last.form[1].amount.num
    \/ last.route = "delete" /\ int(last.form[1]) = None

\* C10 as amended: such a request leaves both tables unchanged and is
\* redirected to /login, unless its amount or record id does not parse, in
\* which case it is answered 422.  /logout removes the cookie, and no
\* request but a successful login or register changes the client's cookie.
C10_NoSessionRefused ==
    /\ (last.route \in ProtectedRoutes /\ NoSession(last.cookie)) =>
           /\ last.outcome = (IF Unparseable THEN "422" ELSE "303 /login")
           /\ TablesUntouched
    /\ last.route = "logout" => cookie[last.client] = None
    /\ (last.route \in ProtectedRoutes
            \/ (last.route \in {"login", "register"} /\ last.outcome # "303 /")) =>
           cookie[last.client] = last.cookie

\* C10's case: a stale cookie on a delete request while there are records
C10_Witness ==
    /\ last.route = "delete" /\ last.cookie = Some("0")
    /\ last.form[1] = "1"
    /\ last.outcome = "303 /login"
    /\ records # {}

====
